---- MODULE Spec2Model ----
(***************************************************************************)
(* Model of the note store of anada (src/anada/note_manager.py).           *)
(*                                                                         *)
(* Text (titles, file names, note contents) is a sequence of one-character *)
(* strings, so that lowercasing, replacement, suffix tests and the link    *)
(* pattern are computed character by character as the Python code does.    *)
(* A path inside notes_dir is represented by its file name: every path the *)
(* store builds is notes_dir / filename and filename holds no '/'.         *)
(***************************************************************************)
EXTENDS Integers, Sequences, FiniteSets, TLC

VARIABLES files, now, last, dir_exists, shell, scan

vars == <<files, now, last, dir_exists, shell, scan>>

(***************************************************************************)
(* Bounds                                                                  *)
(***************************************************************************)
\* the clock (source of modification times and of datetime.now()) stops here
MaxClock == 1
\* longest title drawn by the specification of the title/path functions
MaxLen == 4
\* longest text drawn by the specification of link extraction
MaxText == 10
\* most writes of another process during one scan
MaxWrites == 2

(***************************************************************************)
(* Python str / pathlib primitives                                         *)
(***************************************************************************)
\* str.lower() on one character of the modelled alphabet
LowerChar(c) ==
  CASE c = "A" -> "a"
    [] c = "B" -> "b"
    [] c = "C" -> "c"
    [] c = "D" -> "d"
    [] c = "E" -> "e"
    [] c = "F" -> "f"
    [] c = "G" -> "g"
    [] c = "H" -> "h"
    [] c = "I" -> "i"
    [] c = "J" -> "j"
    [] c = "K" -> "k"
    [] c = "L" -> "l"
    [] c = "M" -> "m"
    [] c = "N" -> "n"
    [] c = "O" -> "o"
    [] c = "P" -> "p"
    [] c = "Q" -> "q"
    [] c = "R" -> "r"
    [] c = "S" -> "s"
    [] c = "T" -> "t"
    [] c = "U" -> "u"
    [] c = "V" -> "v"
    [] c = "W" -> "w"
    [] c = "X" -> "x"
    [] c = "Y" -> "y"
    [] c = "Z" -> "z"
    [] OTHER -> c

\* str.lower()
lower(s) == [i \in 1..Len(s) |-> LowerChar(s[i])]

\* does s hold sub at (1-based) position i
MatchAt(s, sub, i) ==
  /\ i >= 1
  /\ i + Len(sub) - 1 <= Len(s)
  /\ \A k \in 1..Len(sub) : s[i + k - 1] = sub[k]

\* str.endswith(suf)
endswith(s, suf) == MatchAt(s, suf, Len(s) - Len(suf) + 1)

RECURSIVE ReplaceFrom(_, _, _, _)
ReplaceFrom(s, old, new, i) ==
  IF i > Len(s) THEN <<>>
  ELSE IF MatchAt(s, old, i) THEN new \o ReplaceFrom(s, old, new, i + Len(old))
  ELSE <<s[i]>> \o ReplaceFrom(s, old, new, i + 1)

\* str.replace(old, new) for a non-empty old: every non-overlapping
\* occurrence, scanning left to right
replace(s, old, new) == ReplaceFrom(s, old, new, 1)

\* the extension '.md'
MD == <<".", "m", "d">>

\* str.rfind('.') , 1-based, 0 when there is no '.'
RFindDot(s) ==
  LET I == {i \in 1..Len(s) : s[i] = "."}
  IN IF I = {} THEN 0 ELSE CHOOSE i \in I : \A j \in I : j <= i

\* pathlib PurePath.stem of a file name: the name without its last suffix; a
\* leading or a trailing '.' starts no suffix
stem(name) ==
  LET j == RFindDot(name)
  IN IF 1 < j /\ j < Len(name) THEN SubSeq(name, 1, j - 1) ELSE name

(***************************************************************************)
(* Title <-> path                                                          *)
(***************************************************************************)
\* variant: '/' is kept
get_note_path_noslash(title) ==
  LET filename == replace(lower(title), <<" ">>, <<"_">>)
  IN IF ~endswith(filename, MD) THEN filename \o MD ELSE filename

get_note_path(title) ==
  LET filename == replace(replace(lower(title), <<" ">>, <<"_">>), <<"/">>, <<"_">>)
  IN IF ~endswith(filename, MD) THEN filename \o MD ELSE filename

\* variant: '_' is kept
get_title_from_path_keep(path) == stem(path)

get_title_from_path(path) == replace(stem(path), <<"_">>, <<" ">>)

(***************************************************************************)
(* The file system under notes_dir: file name -> [content, mtime]          *)
(***************************************************************************)
path_exists(fs, p) == p \in DOMAIN fs

\* variant: the written file is the only one left
write_text_alone(fs, p, content, t) ==
  [q \in {p} |-> [content |-> content, mtime |-> t]]

\* Path.write_text(content, encoding='utf-8') at clock value t; on POSIX the
\* text is written as given ('\n' is os.linesep)
write_text(fs, p, content, t) ==
  [q \in (DOMAIN fs) \cup {p} |->
     IF q = p THEN [content |-> content, mtime |-> t] ELSE fs[q]]

\* variant: the file stays
unlink_keep(fs, p) == fs

unlink(fs, p) == [q \in (DOMAIN fs) \ {p} |-> fs[q]]

\* text-mode decoding (newline=None): '\r\n' and a lone '\r' are read as '\n'
universal_newlines(s) ==
  replace(replace(s, <<"\r", "\n">>, <<"\n">>), <<"\r">>, <<"\n">>)

\* Path.read_text(encoding='utf-8')
read_text(fs, p) == universal_newlines(fs[p].content)

\* Optional[str]: None is <<>>, a text c is <<c>>
None == <<>>
Some(c) == <<c>>

Digit(t) ==
  CASE t % 10 = 0 -> "0" [] t % 10 = 1 -> "1" [] t % 10 = 2 -> "2"
    [] t % 10 = 3 -> "3" [] t % 10 = 4 -> "4" [] t % 10 = 5 -> "5"
    [] t % 10 = 6 -> "6" [] t % 10 = 7 -> "7" [] t % 10 = 8 -> "8"
    [] OTHER -> "9"

\* datetime.now().isoformat() at clock value t
isoformat(t) ==
  <<"2", "0", "2", "6", "-", "1", "1", "-", "0", "4", "T",
    "1", "0", ":", "5", "1", ":", "0", "0", ".", "0", "0", "0", "0", "0">>
  \o <<Digit(t)>>

\* the body create() writes
frontmatter(title, t) ==
  <<"-", "-", "-", "\n", "c", "r", "e", "a", "t", "e", "d", ":", " ">>
  \o isoformat(t)
  \o <<"\n", "-", "-", "-", "\n", "\n", "#", " ">>
  \o title
  \o <<"\n", "\n">>

(***************************************************************************)
(* Inputs                                                                  *)
(***************************************************************************)
TitleASpaceB == <<"A", " ", "b">>
TitleLowerASpaceB == <<"a", " ", "b">>
TitleAUnderB == <<"a", "_", "b">>
TitleASlashB == <<"a", "/", "b">>
TitleA == <<"A">>
TitleB == <<"B">>
TitleBMd == <<"B", ".", "m", "d">>
TitleMdB == <<".", "m", "d", "B">>

\* titles the store is written and read with: the first four name one file
Titles == {TitleASpaceB, TitleLowerASpaceB, TitleAUnderB, TitleASlashB, TitleB}

\* titles of the notes of the link graph, and the titles backlinks are asked for
LinkTitles == {TitleA, TitleB}
Targets == LinkTitles \cup {TitleBMd, TitleMdB}

TitleBMdMd == <<"B", ".", "m", "d", ".", "m", "d">>

\* titles of the notes that are listed and scanned: the title recovered from
\* the file of the second is "b.md", whose path is the file of the first
ScanTitles == {TitleB, TitleBMdMd}

ContentEmpty == <<>>
\* "see [[B]]"
ContentLinkB == <<"s", "e", "e", " ", "[", "[", "B", "]", "]">>
\* "[[b.md]] [[A]]"
ContentLinkBMd ==
  <<"[", "[", "b", ".", "m", "d", "]", "]", " ", "[", "[", "A", "]", "]">>

\* "[[A b]]"
ContentLinkASpaceB == <<"[", "[", "A", " ", "b", "]", "]">>
\* "[[a/b]] [[B]]"
ContentLinkASlashB ==
  <<"[", "[", "a", "/", "b", "]", "]", " ", "[", "[", "B", "]", "]">>

\* notes and targets whose titles share a path, a comparison key, or neither
KeyTitles == {TitleA, TitleASpaceB}
KeyContents == {ContentEmpty, ContentLinkASpaceB, ContentLinkASlashB}
KeyTargets == {TitleASpaceB, TitleLowerASpaceB, TitleAUnderB, TitleASlashB, TitleB}

\* "x\r\ny"
ContentCR == <<"x", "\r", "\n", "y">>

Contents == {ContentEmpty, ContentLinkB, ContentCR}
LinkContents == {ContentEmpty, ContentLinkB, ContentLinkBMd}

\* "Quick"
ContentQuick == <<"Q", "u", "i", "c", "k">>
\* "aaa quick QUICK [[B.md.md]]"
ContentQuickTwice ==
  <<"a", "a", "a", " ", "q", "u", "i", "c", "k", " ", "Q", "U", "I", "C", "K", " ",
    "[", "[", "B", ".", "m", "d", ".", "m", "d", "]", "]">>

ScanContents == {ContentEmpty, ContentQuick, ContentQuickTwice}

\* "quick" and "AA"
QueryQuick == <<"q", "u", "i", "c", "k">>
QueryAA == <<"A", "A">>
\* "K"
QueryK == <<"K">>

Queries == {QueryQuick, QueryAA, QueryK}

(***************************************************************************)
(* NoteManager: the functions of the store state                           *)
(***************************************************************************)
\* variant: an empty file is reported as not found
read_falsy(fs, title) ==
  LET note_path == get_note_path(title)
  IN IF ~path_exists(fs, note_path) \/ read_text(fs, note_path) = <<>>
     THEN None ELSE Some(read_text(fs, note_path))

read(fs, title) ==
  LET note_path == get_note_path(title)
  IN IF ~path_exists(fs, note_path) THEN None ELSE Some(read_text(fs, note_path))

exists(fs, title) == path_exists(fs, get_note_path(title))

\* variant: empty files are skipped
glob_md_nonempty(fs) == {p \in DOMAIN fs : endswith(p, MD) /\ fs[p].content # <<>>}

\* notes_dir.glob('*.md'): the names that end in '.md'
glob_md(fs) == {p \in DOMAIN fs : endswith(p, MD)}

\* the orders in which glob may yield the directory's entries
GlobOrders(fs) ==
  LET names == glob_md(fs)
      n == Cardinality(names)
  IN {o \in [1..n -> names] : \A i, j \in 1..n : o[i] = o[j] => i = j}

\* variant: smallest key first
RECURSIVE InsertAsc(_, _, _)
InsertAsc(sorted, x, f) ==
  IF sorted = <<>> THEN <<x>>
  ELSE IF Head(sorted)[f] <= x[f] THEN <<Head(sorted)>> \o InsertAsc(Tail(sorted), x, f)
  ELSE <<x>> \o sorted

\* variant: x goes in front of the elements with its own key
RECURSIVE InsertDescUnstable(_, _, _)
InsertDescUnstable(sorted, x, f) ==
  IF sorted = <<>> THEN <<x>>
  ELSE IF Head(sorted)[f] > x[f]
  THEN <<Head(sorted)>> \o InsertDescUnstable(Tail(sorted), x, f)
  ELSE <<x>> \o sorted

\* insert x behind every element whose key f is at least x's
RECURSIVE InsertDesc(_, _, _)
InsertDesc(sorted, x, f) ==
  IF sorted = <<>> THEN <<x>>
  ELSE IF Head(sorted)[f] >= x[f] THEN <<Head(sorted)>> \o InsertDesc(Tail(sorted), x, f)
  ELSE <<x>> \o sorted

\* sorted(seq, key=lambda x: x[f], reverse=True): stable, largest key first
RECURSIVE sorted_desc(_, _)
sorted_desc(seq, f) ==
  IF seq = <<>> THEN <<>>
  ELSE InsertDesc(sorted_desc(SubSeq(seq, 1, Len(seq) - 1), f), seq[Len(seq)], f)

\* list_all, for the order in which glob yields the entries (the record's
\* 'created' field, st_ctime, is read by no store operation and is left out)
list_all(fs, order) ==
  LET notes == [i \in 1..Len(order) |->
                  [title |-> get_title_from_path(order[i]),
                   path |-> order[i],
                   modified |-> fs[order[i]].mtime,
                   size |-> Len(fs[order[i]].content)]]
  IN sorted_desc(notes, "modified")

\* first ']' at or after position i, Len(s) + 1 when there is none
RECURSIVE RunEnd(_, _)
RunEnd(s, i) ==
  IF i > Len(s) THEN Len(s) + 1
  ELSE IF s[i] = "]" THEN i
  ELSE RunEnd(s, i + 1)

\* LINK_PATTERN.findall from position i: '[[', a longest run of one or more
\* characters other than ']', then ']]'; the scan resumes behind a match
RECURSIVE FindLinksFrom(_, _)
FindLinksFrom(s, i) ==
  IF i > Len(s) THEN <<>>
  ELSE IF MatchAt(s, <<"[", "[">>, i)
  THEN LET e == RunEnd(s, i + 2)
       IN IF e > i + 2 /\ MatchAt(s, <<"]", "]">>, e)
          THEN <<SubSeq(s, i + 2, e - 1)>> \o FindLinksFrom(s, e + 2)
          ELSE FindLinksFrom(s, i + 1)
  ELSE FindLinksFrom(s, i + 1)

\* variant: the scan resumes one character behind the start of a match
RECURSIVE FindLinksOverlapping(_, _)
FindLinksOverlapping(s, i) ==
  IF i > Len(s) THEN <<>>
  ELSE IF MatchAt(s, <<"[", "[">>, i)
  THEN LET e == RunEnd(s, i + 2)
       IN IF e > i + 2 /\ MatchAt(s, <<"]", "]">>, e)
          THEN <<SubSeq(s, i + 2, e - 1)>> \o FindLinksOverlapping(s, i + 1)
          ELSE FindLinksOverlapping(s, i + 1)
  ELSE FindLinksOverlapping(s, i + 1)

find_links_overlapping(content) == FindLinksOverlapping(content, 1)

find_links(content) == FindLinksFrom(content, 1)

\* the comparison key of a title or link text
normalized(text) == replace(lower(text), <<" ">>, <<"_">>)

\* target_normalized.replace('.md', '')
target_without_md(target_normalized) == replace(target_normalized, MD, <<>>)

\* variant: the link text is compared as written
links_to_raw(fs, note_title, title) ==
  LET content == read(fs, note_title)
      target_normalized == normalized(title)
  IN /\ content # None
     /\ content[1] # <<>>
     /\ LET links == find_links(content[1])
        IN \E k \in 1..Len(links) :
             \/ links[k] = target_normalized
             \/ links[k] = target_without_md(target_normalized)

\* variant: the target is not lowercased
links_to_cased(fs, note_title, title) ==
  LET content == read(fs, note_title)
      target_normalized == replace(title, <<" ">>, <<"_">>)
  IN /\ content # None
     /\ content[1] # <<>>
     /\ LET links == find_links(content[1])
        IN \E k \in 1..Len(links) :
             \/ normalized(links[k]) = target_normalized
             \/ normalized(links[k]) = target_without_md(target_normalized)

\* does the note whose recovered title is note_title link to title
links_to(fs, note_title, title) ==
  LET content == read(fs, note_title)
      target_normalized == normalized(title)
  IN /\ content # None
     /\ content[1] # <<>>
     /\ LET links == find_links(content[1])
        IN \E k \in 1..Len(links) :
             \/ normalized(links[k]) = target_normalized
             \/ normalized(links[k]) = target_without_md(target_normalized)

RECURSIVE BacklinksOf(_, _, _)
BacklinksOf(fs, notes, title) ==
  IF notes = <<>> THEN <<>>
  ELSE (IF links_to(fs, Head(notes).title, title) THEN <<Head(notes).title>> ELSE <<>>)
       \o BacklinksOf(fs, Tail(notes), title)

get_backlinks(fs, order, title) == BacklinksOf(fs, list_all(fs, order), title)

\* sub in s
contains(s, sub) == \E i \in 1..(Len(s) + 1) : MatchAt(s, sub, i)

\* s.find(sub): the 0-based index of the first occurrence, -1 when there is none
find(s, sub) ==
  IF contains(s, sub)
  THEN (CHOOSE i \in 1..(Len(s) + 1) :
          MatchAt(s, sub, i) /\ \A j \in 1..(i - 1) : ~MatchAt(s, sub, j)) - 1
  ELSE -1

RECURSIVE CountFrom(_, _, _)
CountFrom(s, sub, i) ==
  IF i + Len(sub) - 1 > Len(s) THEN 0
  ELSE IF MatchAt(s, sub, i) THEN 1 + CountFrom(s, sub, i + Len(sub))
  ELSE CountFrom(s, sub, i + 1)

\* s.count(sub): the non-overlapping occurrences, scanning left to right; the
\* empty text occurs Len(s) + 1 times
count(s, sub) == IF sub = <<>> THEN Len(s) + 1 ELSE CountFrom(s, sub, 1)

\* str.isspace() on one character of the modelled alphabet
IsSpace(c) == c \in {" ", "\n", "\r", "\t"}

\* str.strip()
strip(s) ==
  LET keep == {i \in 1..Len(s) : ~IsSpace(s[i])}
  IN IF keep = {} THEN <<>>
     ELSE SubSeq(s, CHOOSE i \in keep : \A j \in keep : i <= j,
                    CHOOSE i \in keep : \A j \in keep : j <= i)

\* content[start:end] for 0 <= start and end <= len(content)
slice(s, start, end) == SubSeq(s, start + 1, end)

Max(a, b) == IF a >= b THEN a ELSE b
Min(a, b) == IF a <= b THEN a ELSE b

\* the default of _get_snippet's context parameter
context == 50

Ellipsis == <<".", ".", ".">>

\* variant: the slice is stripped before the ellipses are added
get_snippet_strip_first(content, query) ==
  LET query_lower == lower(query)
      content_lower == lower(content)
      idx == find(content_lower, query_lower)
  IN IF idx = -1 THEN slice(content, 0, Min(Len(content), context * 2))
     ELSE LET start == Max(0, idx - context)
              end == Min(Len(content), idx + Len(query) + context)
              snippet == strip(slice(content, start, end))
              snippet1 == IF start > 0 THEN Ellipsis \o snippet ELSE snippet
          IN IF end < Len(content) THEN snippet1 \o Ellipsis ELSE snippet1

get_snippet(content, query) ==
  LET query_lower == lower(query)
      content_lower == lower(content)
      idx == find(content_lower, query_lower)
  IN IF idx = -1 THEN slice(content, 0, Min(Len(content), context * 2))
     ELSE LET start == Max(0, idx - context)
              end == Min(Len(content), idx + Len(query) + context)
              snippet == slice(content, start, end)
              snippet1 == IF start > 0 THEN Ellipsis \o snippet ELSE snippet
              snippet2 == IF end < Len(content) THEN snippet1 \o Ellipsis ELSE snippet1
          IN strip(snippet2)

\* the results of search before they are sorted
RECURSIVE ResultsOf(_, _, _)
ResultsOf(fs, notes, query) ==
  IF notes = <<>> THEN <<>>
  ELSE LET content == read(fs, Head(notes).title)
           query_lower == lower(query)
       IN (IF /\ content # None
              /\ content[1] # <<>>
              /\ contains(lower(content[1]), query_lower)
           THEN <<[title |-> Head(notes).title,
                   snippet |-> get_snippet(content[1], query),
                   matches |-> count(lower(content[1]), query_lower)]>>
           ELSE <<>>)
          \o ResultsOf(fs, Tail(notes), query)

search(fs, order, query) ==
  sorted_desc(ResultsOf(fs, list_all(fs, order), query), "matches")

(***************************************************************************)
(* State                                                                   *)
(***************************************************************************)
\* what the last call was and what it returned
Called(op, title, arg, res) ==
  [op |-> op, title |-> title, arg |-> arg, res |-> res, raised |-> ""]

\* the last call raised exc
Raised(op, title, arg, exc) ==
  [op |-> op, title |-> title, arg |-> arg, res |-> <<>>, raised |-> exc]

\* no scan of the notes directory is under way
NoScan ==
  [pc |-> "idle", op |-> "", arg |-> <<>>, todo |-> <<>>, notes |-> <<>>,
   pending |-> <<>>, acc |-> <<>>, res |-> <<>>, raised |-> "", seen |-> {},
   writes |-> 0]

\* no interactive shell is running
NoShell ==
  [running |-> FALSE, looping |-> FALSE, interactive |-> FALSE, cmd |-> <<>>,
   out |-> [kind |-> "", title |-> <<>>, body |-> <<>>]]

Init ==
  /\ files = <<>>
  /\ now = 0
  /\ dir_exists = TRUE
  /\ shell = NoShell
  /\ scan = NoScan
  /\ last = Called("init", <<>>, <<>>, <<>>)

(***************************************************************************)
(* Operations                                                              *)
(***************************************************************************)
\* variant: no existence check
create_overwrite(title) ==
  /\ files' = write_text(files, get_note_path(title), frontmatter(title, now), now)
  /\ last' = Called("create", title, <<>>, get_note_path(title))
  /\ UNCHANGED <<now, dir_exists, shell, scan>>

\* what create(title) does to the files fs at time t: the files afterwards,
\* the returned path and the exception raised, if any
create_result(fs, dir, title, t) ==
  LET note_path == get_note_path(title)
  IN IF path_exists(fs, note_path)
     THEN [files |-> fs, res |-> <<>>, raised |-> "FileExistsError"]
     ELSE IF ~dir
     THEN \* write_text opens a file in a directory that is not there
          [files |-> fs, res |-> <<>>, raised |-> "FileNotFoundError"]
     ELSE [files |-> write_text(fs, note_path, frontmatter(title, t), t),
           res |-> note_path, raised |-> ""]

create(title) ==
  LET r == create_result(files, dir_exists, title, now)
  IN /\ files' = r.files
     /\ last' = IF r.raised = "" THEN Called("create", title, <<>>, r.res)
                ELSE Raised("create", title, <<>>, r.raised)
     /\ UNCHANGED <<now, dir_exists, shell, scan>>

Read(title) ==
  /\ last' = Called("read", title, <<>>, read(files, title))
  /\ UNCHANGED <<files, now, dir_exists, shell, scan>>

update(title, content) ==
  IF ~dir_exists
  THEN \* write_text opens a file in a directory that is not there
       /\ last' = Raised("update", title, content, "FileNotFoundError")
       /\ UNCHANGED <<files, now, dir_exists, shell, scan>>
  ELSE /\ files' = write_text(files, get_note_path(title), content, now)
       /\ last' = Called("update", title, content, <<>>)
       /\ UNCHANGED <<now, dir_exists, shell, scan>>

\* variant: always reports a removal
delete_true(title) ==
  LET note_path == get_note_path(title)
  IN IF path_exists(files, note_path)
     THEN /\ files' = unlink(files, note_path)
          /\ last' = Called("delete", title, <<>>, TRUE)
          /\ UNCHANGED <<now, dir_exists, shell, scan>>
     ELSE /\ last' = Called("delete", title, <<>>, TRUE)
          /\ UNCHANGED <<files, now, dir_exists, shell, scan>>

\* what delete(title) does to the files fs and what it returns
delete_result(fs, title) ==
  LET note_path == get_note_path(title)
  IN IF path_exists(fs, note_path)
     THEN [files |-> unlink(fs, note_path), res |-> TRUE]
     ELSE [files |-> fs, res |-> FALSE]

delete(title) ==
  LET r == delete_result(files, title)
  IN /\ files' = r.files
     /\ last' = Called("delete", title, <<>>, r.res)
     /\ UNCHANGED <<now, dir_exists, shell, scan>>

Exists(title) ==
  /\ last' = Called("exists", title, <<>>, exists(files, title))
  /\ UNCHANGED <<files, now, dir_exists, shell, scan>>

ListAll ==
  /\ \E order \in GlobOrders(files) :
       last' = Called("list_all", <<>>, <<>>, list_all(files, order))
  /\ UNCHANGED <<files, now, dir_exists, shell, scan>>

GetBacklinks(title) ==
  /\ \E order \in GlobOrders(files) :
       last' = Called("get_backlinks", title, <<>>, get_backlinks(files, order, title))
  /\ UNCHANGED <<files, now, dir_exists, shell, scan>>

Search(query) ==
  /\ \E order \in GlobOrders(files) :
       last' = Called("search", query, <<>>, search(files, order, query))
  /\ UNCHANGED <<files, now, dir_exists, shell, scan>>

\* a store is constructed on the same directory
Construct ==
  /\ dir_exists' = TRUE
  /\ last' = Called("init", <<>>, <<>>, <<>>)
  /\ UNCHANGED <<files, now, shell, scan>>

\* the notes directory is removed from outside, with the notes in it
RemoveDir ==
  /\ dir_exists
  /\ dir_exists' = FALSE
  /\ files' = <<>>
  /\ last' = Called("rmtree", <<>>, <<>>, <<>>)
  /\ UNCHANGED <<now, shell, scan>>

\* time passes between two calls
Tick ==
  /\ now < MaxClock
  /\ now' = now + 1
  /\ UNCHANGED <<files, last, dir_exists, shell, scan>>

Next ==
  \/ \E title \in Titles : create(title)
  \/ \E title \in Titles : Read(title)
  \/ \E title \in Titles, content \in Contents : update(title, content)
  \/ \E title \in Titles : delete(title)
  \/ \E title \in Titles : Exists(title)
  \/ Tick

Spec == Init /\ [][Next]_vars

\* the link graph: notes A and B, written, listed and asked for backlinks
NextLinks ==
  \/ \E title \in LinkTitles : create(title)
  \/ \E title \in LinkTitles, content \in LinkContents : update(title, content)
  \/ \E title \in LinkTitles : delete(title)
  \/ ListAll
  \/ \E title \in Targets : GetBacklinks(title)
  \/ Tick

SpecLinks == Init /\ [][NextLinks]_vars

\* the scans: two notes written, read, listed, searched and asked for backlinks
NextScan ==
  \/ \E title \in ScanTitles : create(title)
  \/ \E title \in ScanTitles, content \in ScanContents : update(title, content)
  \/ \E title \in ScanTitles : delete(title)
  \/ \E title \in ScanTitles : Read(title)
  \/ \E title \in ScanTitles : Exists(title)
  \/ ListAll
  \/ \E title \in ScanTitles : GetBacklinks(title)
  \/ \E query \in Queries : Search(query)
  \/ Tick

SpecScan == Init /\ [][NextScan]_vars

\* the link graph asked with targets that share a path or a comparison key
NextKeys ==
  \/ \E title \in KeyTitles, content \in KeyContents : update(title, content)
  \/ \E title \in KeyTitles : delete(title)
  \/ \E title \in KeyTargets : GetBacklinks(title)
  \/ Tick

SpecKeys == Init /\ [][NextKeys]_vars

\* the notes directory comes and goes under a constructed store
NextDir ==
  \/ \E title \in LinkTitles : create(title)
  \/ \E title \in LinkTitles, content \in LinkContents : update(title, content)
  \/ \E title \in LinkTitles : delete(title)
  \/ \E title \in LinkTitles : Read(title)
  \/ \E title \in LinkTitles : Exists(title)
  \/ ListAll
  \/ Construct
  \/ RemoveDir
  \/ Tick

SpecDir == Init /\ [][NextDir]_vars

(***************************************************************************)
(* The title/path functions on every title of at most MaxLen characters    *)
(***************************************************************************)
Alphabet == {"A", "M", "b", "m", "d", ".", " ", "_", "/"}

PathTitles == UNION {[1..n -> Alphabet] : n \in 0..MaxLen}

\* a title is chosen
InitPath ==
  /\ files = <<>>
  /\ now = 0
  /\ dir_exists = TRUE
  /\ shell = NoShell
  /\ scan = NoScan
  /\ \E title \in PathTitles : last = Called("title", title, <<>>, <<>>)

\* its path is computed
GetNotePath ==
  /\ last.op = "title"
  /\ last' = Called("get_note_path", last.title, <<>>, get_note_path(last.title))
  /\ UNCHANGED <<files, now, dir_exists, shell, scan>>

\* list_all recovers a title from that path (arg keeps the chosen title)
GetTitleFromPath ==
  /\ last.op = "get_note_path"
  /\ last' = Called("get_title_from_path", last.res, last.title,
                    get_title_from_path(last.res))
  /\ UNCHANGED <<files, now, dir_exists, shell, scan>>

NextPath ==
  \/ GetNotePath
  \/ GetTitleFromPath

SpecPath == InitPath /\ [][NextPath]_vars

(***************************************************************************)
(* _get_snippet on texts with a match at chosen distances from both ends   *)
(***************************************************************************)
Filler(n, c) == [i \in 1..n |-> c]

\* "The quick brown fox"
ContentFox ==
  <<"T", "h", "e", " ", "q", "u", "i", "c", "k", " ",
    "b", "r", "o", "w", "n", " ", "f", "o", "x">>

\* the distances of the match from an end of the text
Pads == {0, 1, context - 1, context, context + 1}

SnippetContents ==
  {Filler(a, ca) \o mid \o Filler(b, cb) :
     a \in Pads, b \in Pads, ca \in {"x", " "}, cb \in {"x", "\n"},
     mid \in {ContentQuick, QueryQuick}}
  \cup {ContentFox}

\* "QUICK" and "zz"
QueryUpperQuick == <<"Q", "U", "I", "C", "K">>
QueryZZ == <<"z", "z">>

SnippetQueries == {QueryQuick, QueryUpperQuick, QueryZZ}

\* a text and a query are chosen
InitSnippet ==
  /\ files = <<>>
  /\ now = 0
  /\ dir_exists = TRUE
  /\ shell = NoShell
  /\ scan = NoScan
  /\ \E content \in SnippetContents, query \in SnippetQueries :
       last = Called("text", content, query, <<>>)

GetSnippet ==
  /\ last.op = "text"
  /\ last' = Called("get_snippet", last.title, last.arg, get_snippet(last.title, last.arg))
  /\ UNCHANGED <<files, now, dir_exists, shell, scan>>

NextSnippet == GetSnippet

SpecSnippet == InitSnippet /\ [][NextSnippet]_vars

(***************************************************************************)
(* find_links on every text of at most MaxText characters                  *)
(***************************************************************************)
TextAlphabet == {"[", "]", "a"}

\* "See [[Project Plan]] and [[project plan]] again"
TextProjectPlan ==
  <<"S", "e", "e", " ", "[", "[", "P", "r", "o", "j", "e", "c", "t", " ",
    "P", "l", "a", "n", "]", "]", " ", "a", "n", "d", " ", "[", "[",
    "p", "r", "o", "j", "e", "c", "t", " ", "p", "l", "a", "n", "]", "]",
    " ", "a", "g", "a", "i", "n">>

LinkTexts == UNION {[1..n -> TextAlphabet] : n \in 0..MaxText} \cup {TextProjectPlan}

\* a text is chosen
InitFindLinks ==
  /\ files = <<>>
  /\ now = 0
  /\ dir_exists = TRUE
  /\ shell = NoShell
  /\ scan = NoScan
  /\ \E text \in LinkTexts : last = Called("text", text, <<>>, <<>>)

FindLinks ==
  /\ last.op = "text"
  /\ last' = Called("find_links", last.title, <<>>, find_links(last.title))
  /\ UNCHANGED <<files, now, dir_exists, shell, scan>>

NextFindLinks == FindLinks

SpecFindLinks == InitFindLinks /\ [][NextFindLinks]_vars

(***************************************************************************)
(* The interactive shell (repl.py)                                         *)
(***************************************************************************)
\* the command words of _process_command
Cmd ==
  [help |-> <<"h", "e", "l", "p">>,
   quit |-> <<"q", "u", "i", "t">>,
   exit |-> <<"e", "x", "i", "t">>,
   clear |-> <<"c", "l", "e", "a", "r">>,
   menu |-> <<"m", "e", "n", "u">>,
   live_search |-> <<"l", "i", "v", "e", "-", "s", "e", "a", "r", "c", "h">>,
   status |-> <<"s", "t", "a", "t", "u", "s">>,
   interactive |-> <<"i", "n", "t", "e", "r", "a", "c", "t", "i", "v", "e">>,
   new |-> <<"n", "e", "w">>,
   edit |-> <<"e", "d", "i", "t">>,
   open |-> <<"o", "p", "e", "n">>,
   show |-> <<"s", "h", "o", "w">>,
   delete |-> <<"d", "e", "l", "e", "t", "e">>,
   list |-> <<"l", "i", "s", "t">>,
   search |-> <<"s", "e", "a", "r", "c", "h">>,
   link |-> <<"l", "i", "n", "k">>,
   backlinks |-> <<"b", "a", "c", "k", "l", "i", "n", "k", "s">>,
   theme |-> <<"t", "h", "e", "m", "e">>,
   editor |-> <<"e", "d", "i", "t", "o", "r">>,
   user |-> <<"u", "s", "e", "r">>]

\* the entries of the menu that open a further menu
ThemeMenu == <<"t", "h", "e", "m", "e", "_", "m", "e", "n", "u">>
EditorMenu == <<"e", "d", "i", "t", "o", "r", "_", "m", "e", "n", "u">>

\* the first whitespace of s, or Len(s) + 1
FirstSpace(s) ==
  IF \E i \in 1..Len(s) : IsSpace(s[i])
  THEN CHOOSE i \in 1..Len(s) : IsSpace(s[i]) /\ \A j \in 1..(i - 1) : ~IsSpace(s[j])
  ELSE Len(s) + 1

\* command.split(None, 1) on a stripped, non-empty line: parts[0]
split_cmd(command) == SubSeq(command, 1, FirstSpace(command) - 1)

\* parts[1] if len(parts) > 1 else ""
split_args(command) ==
  LET k == FirstSpace(command)
      rest == SubSeq(command, k, Len(command))
  IN IF \E i \in 1..Len(rest) : ~IsSpace(rest[i])
     THEN SubSeq(rest,
                 CHOOSE i \in 1..Len(rest) :
                   ~IsSpace(rest[i]) /\ \A j \in 1..(i - 1) : IsSpace(rest[j]),
                 Len(rest))
     ELSE <<>>

\* what the console shows for one input
Out(kind, title, body) == [kind |-> kind, title |-> title, body |-> body]

\* a handler returned: the files and the directory afterwards, the shell, no exception
Printed(fs, dir, sh, out) ==
  [files |-> fs, dir |-> dir, shell |-> [sh EXCEPT !.out = out], exc |-> ""]

\* a handler raised exc
Throws(fs, dir, sh, exc) == [files |-> fs, dir |-> dir, shell |-> sh, exc |-> exc]

\* the themes of DEFAULT_CONFIG
ThemeNames == {<<"d", "e", "f", "a", "u", "l", "t">>, <<"d", "a", "r", "k">>, <<"n", "o", "r", "d">>}

cmd_help(fs, dir, sh) == Printed(fs, dir, sh, Out("help", <<>>, <<>>))

\* variant: FileExistsError is not caught
cmd_new_uncaught(fs, dir, sh, t, title) ==
  IF title = <<>> THEN Printed(fs, dir, sh, Out("usage", Cmd.new, <<>>))
  ELSE LET r == create_result(fs, dir, title, t)
       IN IF r.raised = ""
          THEN Printed(r.files, dir, sh, Out("created", title, r.res))
          ELSE Throws(fs, dir, sh, r.raised)

cmd_new(fs, dir, sh, t, title) ==
  IF title = <<>> THEN Printed(fs, dir, sh, Out("usage", Cmd.new, <<>>))
  ELSE LET r == create_result(fs, dir, title, t)
       IN IF r.raised = ""
          THEN Printed(r.files, dir, sh, Out("created", title, r.res))
          ELSE IF r.raised = "FileExistsError"
          THEN Printed(fs, dir, sh, Out("warning", title, <<>>))
          ELSE Throws(fs, dir, sh, r.raised)

\* the editor process: it may write text to the file, and it ends normally, fails,
\* is missing or is interrupted
cmd_edit(fs, dir, sh, t, title, editor) ==
  IF title = <<>> THEN Printed(fs, dir, sh, Out("usage", Cmd.edit, <<>>))
  ELSE LET r == IF ~exists(fs, title)
                THEN create_result(fs, dir, title, t)
                ELSE [files |-> fs, res |-> <<>>, raised |-> ""]
           path == get_note_path(title)
           edited == IF editor.text = None THEN r.files
                     ELSE write_text(r.files, path, editor.text[1], t)
       IN IF r.raised # "" THEN Throws(fs, dir, sh, r.raised)
          ELSE IF editor.exc = "" THEN Printed(edited, dir, sh, Out("saved", title, path))
          ELSE IF editor.exc = "CalledProcessError"
          THEN Printed(edited, dir, sh, Out("editor failed", title, <<>>))
          ELSE IF editor.exc = "FileNotFoundError"
          THEN Printed(r.files, dir, sh, Out("editor not found", title, <<>>))
          ELSE Throws(edited, dir, sh, editor.exc)

cmd_show(fs, dir, sh, order, title) ==
  IF title = <<>> THEN Printed(fs, dir, sh, Out("usage", Cmd.show, <<>>))
  ELSE LET content == read(fs, title)
       IN IF content = None
          THEN Printed(fs, dir, sh, Out("not found", title, <<>>))
          ELSE Printed(fs, dir, sh,
                       Out("show", title,
                           [content |-> content[1],
                            backlinks |-> get_backlinks(fs, order, title)]))

\* variant: only a lowercase 'y' confirms
cmd_delete_exact(fs, dir, sh, title, answer) ==
  IF title = <<>> THEN Printed(fs, dir, sh, Out("usage", Cmd.delete, <<>>))
  ELSE IF ~exists(fs, title) THEN Printed(fs, dir, sh, Out("not found", title, <<>>))
  ELSE IF answer.exc # "" THEN Throws(fs, dir, sh, answer.exc)
  ELSE IF answer.text = <<"y">>
  THEN Printed(delete_result(fs, title).files, dir, sh, Out("deleted", title, <<>>))
  ELSE Printed(fs, dir, sh, Out("cancelled", title, <<>>))

\* answer: what the confirmation prompt returns or raises
cmd_delete(fs, dir, sh, title, answer) ==
  IF title = <<>> THEN Printed(fs, dir, sh, Out("usage", Cmd.delete, <<>>))
  ELSE IF ~exists(fs, title) THEN Printed(fs, dir, sh, Out("not found", title, <<>>))
  ELSE IF answer.exc # "" THEN Throws(fs, dir, sh, answer.exc)
  ELSE IF lower(answer.text) = <<"y">>
  THEN Printed(delete_result(fs, title).files, dir, sh, Out("deleted", title, <<>>))
  ELSE Printed(fs, dir, sh, Out("cancelled", title, <<>>))

cmd_list(fs, dir, sh, order) ==
  LET notes == list_all(fs, order)
  IN IF notes = <<>> THEN Printed(fs, dir, sh, Out("no notes", <<>>, <<>>))
     ELSE Printed(fs, dir, sh, Out("list", <<>>, notes))

cmd_search(fs, dir, sh, order, query) ==
  IF query = <<>> THEN Printed(fs, dir, sh, Out("usage", Cmd.search, <<>>))
  ELSE Printed(fs, dir, sh, Out("search", query, search(fs, order, query)))

cmd_link(fs, dir, sh, title) ==
  IF title = <<>> THEN Printed(fs, dir, sh, Out("usage", Cmd.link, <<>>))
  ELSE LET content == read(fs, title)
       IN IF content = None THEN Printed(fs, dir, sh, Out("not found", title, <<>>))
          ELSE IF find_links(content[1]) # <<>>
          THEN Printed(fs, dir, sh, Out("links", title, find_links(content[1])))
          ELSE Printed(fs, dir, sh, Out("no links", title, <<>>))

cmd_backlinks(fs, dir, sh, order, title) ==
  IF title = <<>> THEN Printed(fs, dir, sh, Out("usage", Cmd.backlinks, <<>>))
  ELSE IF get_backlinks(fs, order, title) # <<>>
  THEN Printed(fs, dir, sh, Out("backlinks", title, get_backlinks(fs, order, title)))
  ELSE Printed(fs, dir, sh, Out("no backlinks", title, <<>>))

\* config.set saves the configuration, and save makes the directories
cmd_theme(fs, dir, sh, theme_name) ==
  IF theme_name = <<>> THEN Printed(fs, dir, sh, Out("usage", Cmd.theme, <<>>))
  ELSE IF theme_name \in ThemeNames
  THEN Printed(fs, TRUE, sh, Out("theme changed", theme_name, <<>>))
  ELSE Printed(fs, dir, sh, Out("unknown theme", theme_name, <<>>))

\* which: does shutil.which find the editor
cmd_editor(fs, dir, sh, editor_name, which) ==
  IF editor_name = <<>> THEN Printed(fs, dir, sh, Out("current editor", <<>>, <<>>))
  ELSE IF which THEN Printed(fs, TRUE, sh, Out("editor changed", editor_name, <<>>))
  ELSE Printed(fs, dir, sh, Out("editor not in PATH", editor_name, <<>>))

cmd_user(fs, dir, sh, user_name) ==
  IF user_name = <<>> THEN Printed(fs, dir, sh, Out("current user", <<>>, <<>>))
  ELSE Printed(fs, TRUE, sh, Out("user name set", user_name, <<>>))

cmd_show_status(fs, dir, sh, order) ==
  Printed(fs, dir, sh, Out("status", <<>>, list_all(fs, order)))

cmd_toggle_interactive(fs, dir, sh) ==
  Printed(fs, dir, [sh EXCEPT !.interactive = ~sh.interactive],
          Out("interactive", <<>>, ~sh.interactive))

\* the definition that is in force, the second one of the class: two lines
\* are printed and the handler returns
cmd_live_search(fs, dir, sh) == Printed(fs, dir, sh, Out("live search", <<>>, <<>>))

RECURSIVE process_command(_, _, _, _, _, _)

\* menu: what the dialogs return (result, then text) or that they raise
cmd_interactive_menu(fs, dir, sh, t, env) ==
  LET menu == env.menu
      r == IF menu.exc # "" THEN Throws(fs, dir, sh, menu.exc)
           ELSE IF menu.result = <<>> THEN Printed(fs, dir, sh, Out("", <<>>, <<>>))
           ELSE IF menu.result = Cmd.new
           THEN IF menu.text # <<>> THEN cmd_new(fs, dir, sh, t, menu.text)
                ELSE Printed(fs, dir, sh, Out("", <<>>, <<>>))
           ELSE IF menu.result = Cmd.search
           THEN IF menu.text # <<>> THEN cmd_search(fs, dir, sh, env.order, menu.text)
                ELSE Printed(fs, dir, sh, Out("", <<>>, <<>>))
           ELSE IF menu.result = ThemeMenu
           THEN IF menu.text # <<>> THEN cmd_theme(fs, dir, sh, menu.text)
                ELSE Printed(fs, dir, sh, Out("", <<>>, <<>>))
           ELSE IF menu.result = EditorMenu
           THEN IF menu.text # <<>> THEN cmd_editor(fs, dir, sh, menu.text, env.which)
                ELSE Printed(fs, dir, sh, Out("", <<>>, <<>>))
           ELSE process_command(fs, dir, sh, t, menu.result, env)
  IN \* except Exception
     IF r.exc \notin {"", "KeyboardInterrupt"}
     THEN Printed(r.files, r.dir, r.shell, Out("menu not available", <<>>, r.exc))
     ELSE r

process_command(fs, dir, sh0, t, command, env) ==
  LET cmd == lower(split_cmd(command))
      args == split_args(command)
      sh == [sh0 EXCEPT !.cmd = cmd]
  IN CASE cmd = Cmd.help -> cmd_help(fs, dir, sh)
       [] cmd = Cmd.quit \/ cmd = Cmd.exit ->
            [files |-> fs, dir |-> dir, exc |-> "",
             shell |-> [sh EXCEPT !.running = FALSE, !.out = Out("", <<>>, <<>>)]]
       [] cmd = Cmd.clear -> Printed(fs, dir, sh, Out("clear", <<>>, <<>>))
       [] cmd = Cmd.menu -> cmd_interactive_menu(fs, dir, sh, t, env)
       [] cmd = Cmd.live_search -> cmd_live_search(fs, dir, sh)
       [] cmd = Cmd.status -> cmd_show_status(fs, dir, sh, env.order)
       [] cmd = Cmd.interactive -> cmd_toggle_interactive(fs, dir, sh)
       [] cmd = Cmd.new -> cmd_new(fs, dir, sh, t, args)
       [] cmd = Cmd.edit \/ cmd = Cmd.open -> cmd_edit(fs, dir, sh, t, args, env.editor)
       [] cmd = Cmd.show -> cmd_show(fs, dir, sh, env.order, args)
       [] cmd = Cmd.delete -> cmd_delete(fs, dir, sh, args, env.answer)
       [] cmd = Cmd.list -> cmd_list(fs, dir, sh, env.order)
       [] cmd = Cmd.search -> cmd_search(fs, dir, sh, env.order, args)
       [] cmd = Cmd.link -> cmd_link(fs, dir, sh, args)
       [] cmd = Cmd.backlinks -> cmd_backlinks(fs, dir, sh, env.order, args)
       [] cmd = Cmd.theme -> cmd_theme(fs, dir, sh, args)
       [] cmd = Cmd.editor -> cmd_editor(fs, dir, sh, args, env.which)
       [] cmd = Cmd.user -> cmd_user(fs, dir, sh, args)
       [] OTHER ->
            \* try to show the note if the line is a note title
            IF exists(fs, command) THEN cmd_show(fs, dir, sh, env.order, command)
            ELSE Printed(fs, dir, sh, Out("unknown command", cmd, <<>>))

\* one turn of the loop of run around the outcome r of the input: the
\* except clauses, then the loop condition
run_handle(r) ==
  IF r.exc = ""
  THEN [r EXCEPT !.shell.looping = r.shell.running]
  ELSE IF r.exc = "KeyboardInterrupt"
  THEN [r EXCEPT !.shell.out = Out("press ctrl+d", <<>>, <<>>)]
  ELSE IF r.exc = "EOFError"
  THEN [r EXCEPT !.shell.out = Out("goodbye", <<>>, <<>>), !.shell.looping = FALSE]
  ELSE [r EXCEPT !.shell.out = Out("error", <<>>, r.exc)]

\* input lines
ShellLines ==
  {<<"B">>,
   <<"n", "e", "w", " ", "B">>,
   <<"n", "e", "w", " ", "n", "e", "w", " ", "B">>,
   <<" ", "n", "e", "w", " ", " ", "B", " ">>,
   <<"s", "h", "o", "w", " ", "B">>,
   <<"d", "e", "l", "e", "t", "e", " ", "B">>,
   <<"D", "E", "L", "E", "T", "E", " ", "n", "e", "w", " ", "B">>,
   <<"e", "d", "i", "t", " ", "B">>,
   <<"l", "i", "s", "t">>,
   <<"s", "e", "a", "r", "c", "h", " ", "B">>,
   <<"l", "i", "n", "k", " ", "B">>,
   <<"b", "a", "c", "k", "l", "i", "n", "k", "s", " ", "B">>,
   <<"h", "e", "l", "p">>,
   <<"Q", "U", "I", "T">>,
   <<"e", "x", "i", "t">>,
   <<"c", "l", "e", "a", "r">>,
   <<"m", "e", "n", "u">>,
   <<"l", "i", "v", "e", "-", "s", "e", "a", "r", "c", "h">>,
   <<"s", "t", "a", "t", "u", "s">>,
   <<"i", "n", "t", "e", "r", "a", "c", "t", "i", "v", "e">>,
   <<"t", "h", "e", "m", "e", " ", "d", "a", "r", "k">>,
   <<"e", "d", "i", "t", "o", "r", " ", "v", "i", "m">>,
   <<"u", "s", "e", "r", " ", "B">>,
   <<"n", "e", "w">>,
   <<"z", "z">>,
   <<" ", " ">>}

\* what a prompt returns or raises
Returned(text) == [exc |-> "", text |-> text]

Answers ==
  {Returned(a) : a \in {<<"y">>, <<"Y">>, <<"n">>, <<>>, <<"y", "e", "s">>}}
  \cup {[exc |-> e, text |-> <<>>] : e \in {"KeyboardInterrupt", "EOFError"}}

\* what the editor process does
EditorRuns ==
  {[exc |-> "", text |-> None], [exc |-> "", text |-> Some(ContentLinkB)],
   [exc |-> "CalledProcessError", text |-> None],
   [exc |-> "FileNotFoundError", text |-> None],
   [exc |-> "KeyboardInterrupt", text |-> None]}

\* what the dialogs of the menu return
MenuRuns ==
  {[exc |-> "", result |-> r, text |-> <<>>] :
     r \in {<<>>, Cmd.new, Cmd.list, Cmd.live_search, Cmd.status, Cmd.help, Cmd.quit}}
  \cup {[exc |-> "", result |-> Cmd.new, text |-> TitleB],
        [exc |-> "", result |-> Cmd.search, text |-> TitleB],
        [exc |-> "", result |-> ThemeMenu, text |-> <<"d", "a", "r", "k">>],
        [exc |-> "", result |-> EditorMenu, text |-> <<"v", "i", "m">>],
        [exc |-> "Exception", result |-> <<>>, text |-> <<>>]}

\* what the environment answers while the line is handled; an answer that
\* the command of the line does not ask for has one value
Envs(fs, line) ==
  LET cmd == lower(split_cmd(strip(line)))
  IN {[answer |-> a, editor |-> e, menu |-> m, which |-> w, order |-> o] :
        a \in IF cmd = Cmd.delete THEN Answers ELSE {Returned(<<>>)},
        e \in IF cmd \in {Cmd.edit, Cmd.open} THEN EditorRuns ELSE {[exc |-> "", text |-> None]},
        m \in IF cmd = Cmd.menu THEN MenuRuns ELSE {[exc |-> "", result |-> <<>>, text |-> <<>>]},
        w \in IF cmd \in {Cmd.editor, Cmd.menu} THEN BOOLEAN ELSE {TRUE},
        o \in GlobOrders(fs)}

\* the program starts: REPL() and run() up to the first prompt
Run ==
  /\ ~shell.looping
  /\ shell' = [running |-> TRUE, looping |-> TRUE, interactive |-> FALSE,
               cmd |-> <<>>, out |-> Out("welcome", <<>>, <<>>)]
  /\ dir_exists' = TRUE
  /\ last' = Called("run", <<>>, <<>>, <<>>)
  /\ UNCHANGED <<files, now, scan>>

\* the prompt returns a line
Line(user_input) ==
  /\ shell.looping
  /\ \E env \in Envs(files, user_input) :
       LET r == IF strip(user_input) = <<>>
                THEN Printed(files, dir_exists, [shell EXCEPT !.cmd = <<>>], Out("", <<>>, <<>>))
                ELSE run_handle(process_command(files, dir_exists, shell, now,
                                                strip(user_input), env))
       IN /\ files' = r.files
          /\ dir_exists' = r.dir
          /\ shell' = r.shell
          \* arg: what the confirmation prompt returns if it is asked
          /\ last' = Called("line", user_input, env.answer, <<>>)
  /\ UNCHANGED <<now, scan>>

\* the prompt raises KeyboardInterrupt
Interrupt ==
  /\ shell.looping
  /\ shell' = run_handle(Throws(files, dir_exists, [shell EXCEPT !.cmd = <<>>],
                                "KeyboardInterrupt")).shell
  /\ last' = Called("interrupt", <<>>, <<>>, <<>>)
  /\ UNCHANGED <<files, now, dir_exists, scan>>

\* the prompt raises EOFError
EndOfInput ==
  /\ shell.looping
  /\ shell' = run_handle(Throws(files, dir_exists, [shell EXCEPT !.cmd = <<>>],
                                "EOFError")).shell
  /\ last' = Called("eof", <<>>, <<>>, <<>>)
  /\ UNCHANGED <<files, now, dir_exists, scan>>

NextShell ==
  \/ Run
  \/ \E user_input \in ShellLines : Line(user_input)
  \/ Interrupt
  \/ EndOfInput
  \/ RemoveDir

SpecShell == Init /\ [][NextShell]_vars

(***************************************************************************)
(* list_all, get_backlinks and search file system call by file system      *)
(* call, with another process writing the notes directory in between       *)
(***************************************************************************)
RaceTitles == {TitleA, TitleB}

\* "Quick [[B]]"
ContentQuickLinkB == <<"Q", "u", "i", "c", "k", " ", "[", "[", "B", "]", "]">>

\* the scans that are called
ScanCalls ==
  {[op |-> "list_all", arg |-> <<>>],
   [op |-> "get_backlinks", arg |-> TitleB],
   [op |-> "search", arg |-> QueryQuick]}

\* the call returns res
scan_return(sc, res) == [sc EXCEPT !.pc = "done", !.res = res]

\* the call raises exc
scan_raise(sc, exc) == [sc EXCEPT !.pc = "done", !.raised = exc]

\* variant: the loop stops one note early
scan_next_short(sc) ==
  IF Len(sc.pending) <= 1
  THEN scan_return(sc, IF sc.op = "search" THEN sorted_desc(sc.acc, "matches") ELSE sc.acc)
  ELSE [sc EXCEPT !.pc = "exists"]

\* the loop of get_backlinks or search over the listed notes: the next note
\* is read, or the loop is over and the call returns (search sorts first)
scan_next(sc) ==
  IF sc.pending = <<>>
  THEN scan_return(sc, IF sc.op = "search" THEN sorted_desc(sc.acc, "matches") ELSE sc.acc)
  ELSE [sc EXCEPT !.pc = "exists"]

\* the loop of list_all over the globbed paths: the next path is asked for
\* its metadata, or the loop is over and the notes are sorted
scan_listed(sc) ==
  IF sc.todo # <<>> THEN [sc EXCEPT !.pc = "stat"]
  ELSE LET notes == sorted_desc(sc.notes, "modified")
       IN IF sc.op = "list_all" THEN scan_return(sc, notes)
          ELSE scan_next([sc EXCEPT !.pending = notes])

\* notes_dir.glob('*.md') reads the directory once, in the order order
scan_glob(fs, order, call) ==
  scan_listed([NoScan EXCEPT !.op = call.op, !.arg = call.arg, !.todo = order,
                             !.seen = {fs}])

\* path.stat() of the next globbed path
scan_stat(sc, fs) ==
  LET path == Head(sc.todo)
  IN IF ~path_exists(fs, path) THEN scan_raise(sc, "FileNotFoundError")
     ELSE scan_listed([sc EXCEPT !.todo = Tail(sc.todo),
                                 !.notes = Append(sc.notes,
                                   [title |-> get_title_from_path(path),
                                    path |-> path,
                                    modified |-> fs[path].mtime,
                                    size |-> Len(fs[path].content)])])

\* read(note['title']): note_path.exists()
scan_exists(sc, fs) ==
  IF exists(fs, Head(sc.pending).title) THEN [sc EXCEPT !.pc = "read_text"]
  ELSE scan_next([sc EXCEPT !.pending = Tail(sc.pending)])

\* read(note['title']): note_path.read_text(), then the body of the loop
scan_read_text(sc, fs) ==
  LET note == Head(sc.pending)
  IN IF ~exists(fs, note.title) THEN scan_raise(sc, "FileNotFoundError")
     ELSE scan_next([sc EXCEPT
            !.pending = Tail(sc.pending),
            !.acc = sc.acc \o (IF sc.op = "search" THEN ResultsOf(fs, <<note>>, sc.arg)
                               ELSE BacklinksOf(fs, <<note>>, sc.arg))])

\* a scan is called
ScanBegin(call) ==
  /\ scan.pc = "idle"
  /\ \E order \in GlobOrders(files) : scan' = scan_glob(files, order, call)
  /\ UNCHANGED <<files, now, last, dir_exists, shell>>

ScanStat ==
  /\ scan.pc = "stat"
  /\ scan' = scan_stat(scan, files)
  /\ UNCHANGED <<files, now, last, dir_exists, shell>>

ScanExists ==
  /\ scan.pc = "exists"
  /\ scan' = scan_exists(scan, files)
  /\ UNCHANGED <<files, now, last, dir_exists, shell>>

ScanReadText ==
  /\ scan.pc = "read_text"
  /\ scan' = scan_read_text(scan, files)
  /\ UNCHANGED <<files, now, last, dir_exists, shell>>

\* the caller has the result
ScanReturn ==
  /\ scan.pc = "done"
  /\ scan' = NoScan
  /\ last' = IF scan.raised = "" THEN Called(scan.op, scan.arg, <<>>, scan.res)
             ELSE Raised(scan.op, scan.arg, <<>>, scan.raised)
  /\ UNCHANGED <<files, now, dir_exists, shell>>

\* another process leaves the files fs; a scan under way neither sees nor
\* stops it (seen and writes keep the history of the call)
Other(fs) ==
  /\ fs # files
  /\ scan.pc # "done"
  /\ files' = fs
  /\ IF scan.pc = "idle" THEN scan' = scan
     ELSE /\ scan.writes < MaxWrites
          /\ scan' = [scan EXCEPT !.seen = scan.seen \cup {fs}, !.writes = scan.writes + 1]
  /\ UNCHANGED <<now, last, dir_exists, shell>>

OtherCreate(title) == Other(create_result(files, dir_exists, title, now).files)

OtherUpdate(title, content) == Other(write_text(files, get_note_path(title), content, now))

OtherDelete(title) == Other(delete_result(files, title).files)

NextRace ==
  \/ \E call \in ScanCalls : ScanBegin(call)
  \/ ScanStat
  \/ ScanExists
  \/ ScanReadText
  \/ ScanReturn
  \/ \E title \in RaceTitles : OtherCreate(title)
  \/ \E title \in RaceTitles : OtherUpdate(title, ContentQuickLinkB)
  \/ \E title \in RaceTitles : OtherDelete(title)

SpecRace == Init /\ [][NextRace]_vars

(***************************************************************************)
(* Properties                                                              *)
(***************************************************************************)
\* the step is a call of op (Tick is the only step that moves the clock)
Calls(op) == now' = now /\ last'.op = op

SamePath(t1, t2) == get_note_path(t1) = get_note_path(t2)

\* C1: create(T) raises AlreadyExists exactly when a file is at pathFor(T)
\* right before the call, a create that raises leaves the store as it was,
\* and no other operation raises AlreadyExists.
C1_CreateAlreadyExists ==
  [][ /\ Calls("create") =>
           /\ (last'.raised = "FileExistsError")
                <=> path_exists(files, get_note_path(last'.title))
           /\ (last'.raised = "FileExistsError" => files' = files)
      /\ (last'.raised = "FileExistsError" => last'.op = "create") ]_vars

\* C1 witness: a create has failed on an existing note
C1_Witness ==
  /\ last.op = "create"
  /\ last.raised = "FileExistsError"
  /\ exists(files, last.title)

\* C2: no note exists at first; a successful create or update of pathFor(T)
\* makes exists(T) true, a delete of pathFor(T) makes it false, and every
\* other step (a failed create, a call on another path, a query, time
\* passing) leaves exists(T) as it was.
C2_ExistsTracksLastMutation ==
  /\ \A T \in Titles : ~exists(files, T)
  /\ [][ \A T \in Titles :
           IF /\ now' = now
              /\ last'.op \in {"create", "update"}
              /\ last'.raised = ""
              /\ SamePath(last'.title, T)
           THEN exists(files', T)
           ELSE IF Calls("delete") /\ SamePath(last'.title, T)
           THEN ~exists(files', T)
           ELSE exists(files', T) = exists(files, T) ]_vars

\* C2 witness: a note that existed has been deleted, another one is left
C2_Witness ==
  /\ last.op = "delete"
  /\ last.res = TRUE
  /\ ~exists(files, last.title)
  /\ DOMAIN files # {}

\* C3 (as claimed): after update(T, C), read(T) returns exactly C.
C3_UpdateThenRead ==
  last.op = "update" => read(files, last.title) = Some(last.arg)

\* C4: delete(T) returns whether a note was at pathFor(T) right before the
\* call, raises nothing, leaves the store as it was when the note is absent,
\* leaves no note at pathFor(T), and returns false right after another
\* delete of the same path.
C4_Delete ==
  [][ Calls("delete") =>
        /\ last'.res = exists(files, last'.title)
        /\ last'.raised = ""
        /\ (~exists(files, last'.title) => files' = files)
        /\ ~exists(files', last'.title)
        /\ (last.op = "delete" /\ SamePath(last.title, last'.title)
              => last'.res = FALSE) ]_vars

\* C4 witness: a delete of an absent note returned false, the store not empty
C4_Witness ==
  /\ last.op = "delete"
  /\ last.res = FALSE
  /\ DOMAIN files # {}

\* C5: read(T) returns the not-found value exactly when no note is at
\* pathFor(T) and the whole text of the file otherwise; it raises nothing and
\* leaves the store as it was.
C5_Read ==
  [][ Calls("read") =>
        /\ files' = files
        /\ last'.raised = ""
        /\ (last'.res = None) <=> ~exists(files, last'.title)
        /\ (exists(files, last'.title)
              => last'.res = Some(read_text(files, get_note_path(last'.title)))) ]_vars

\* C5 witness: a note with empty content has been read: empty text, not None
C5_Witness ==
  /\ last.op = "read"
  /\ last.res = Some(<<>>)

\* C6 (as claimed): titles with one path are one note: right after a
\* successful create(T1), create(T2) raises AlreadyExists; right after
\* update(T1, C), read(T2) returns C; right after delete(T1), exists(T2) is
\* false; and the store holds at most one file for T1 and T2.
C6_CollidingTitles ==
  [][ /\ (now' = now /\ SamePath(last.title, last'.title)) =>
           /\ (last.op = "create" /\ last.raised = "" /\ last'.op = "create"
                 => last'.raised = "FileExistsError")
           /\ (last.op = "update" /\ last'.op = "read"
                 => last'.res = Some(last.arg))
           /\ (last.op = "delete" /\ last'.op = "exists"
                 => last'.res = FALSE)
      /\ \A T1, T2 \in Titles :
           SamePath(T1, T2) =>
             Cardinality({p \in DOMAIN files' :
                            p = get_note_path(T1) \/ p = get_note_path(T2)}) <= 1 ]_vars

\* what pathFor makes of one character of the title
PathChar(c) == IF c = " " \/ c = "/" THEN "_" ELSE LowerChar(c)

\* C7: the file name of pathFor(T) is T with every character lowercased and
\* every space and '/' turned into '_', followed by '.md' exactly when that
\* text does not already end in '.md'; it depends on T alone.
C7_PathFor ==
  last.op = "get_note_path" =>
    LET T == last.title
        r == last.res
        n == Len(T)
        ends == /\ n >= 3
                /\ PathChar(T[n - 2]) = "."
                /\ PathChar(T[n - 1]) = "m"
                /\ PathChar(T[n]) = "d"
    IN /\ Len(r) = (IF ends THEN n ELSE n + 3)
       /\ \A i \in 1..n : r[i] = PathChar(T[i])
       /\ ~ends => (r[n + 1] = "." /\ r[n + 2] = "m" /\ r[n + 3] = "d")

\* C7 witness: the path of a title with a '/', an uppercase letter and an
\* extension of its own, to which no '.md' was added
C7_Witness ==
  /\ last.op = "get_note_path"
  /\ Len(last.res) = Len(last.title)
  /\ \E i \in 1..Len(last.title) : last.title[i] = "/"
  /\ \E i \in 1..Len(last.title) : last.title[i] = "M"

NoUpperNoSlash(T) ==
  \A i \in 1..Len(T) : T[i] # "/" /\ LowerChar(T[i]) = T[i]

\* C8 (as claimed): titleFor(pathFor(T)) = T for every title T (a non-empty
\* text) without an uppercase letter and without '/'.
C8_RoundTrip ==
  (last.op = "get_title_from_path" /\ last.arg # <<>> /\ NoUpperNoSlash(last.arg))
    => last.res = last.arg

\* C8 (amended): titleFor(pathFor(T)) = T for every non-empty title T without
\* an uppercase letter, without '/' and without '_', that does not end in
\* '.md' and is not made of '.' characters only.
C8_RoundTripAmended ==
  ( /\ last.op = "get_title_from_path"
    /\ NoUpperNoSlash(last.arg)
    /\ \A i \in 1..Len(last.arg) : last.arg[i] # "_"
    /\ ~endswith(last.arg, MD)
    /\ \E i \in 1..Len(last.arg) : last.arg[i] # "." )
    => last.res = last.arg

\* C8 witness: a title with a space and a '.' has been mapped there and back
C8_Witness ==
  /\ last.op = "get_title_from_path"
  /\ NoUpperNoSlash(last.arg)
  /\ ~endswith(last.arg, MD)
  /\ \A i \in 1..Len(last.arg) : last.arg[i] # "_"
  /\ \E i \in 1..Len(last.arg) : last.arg[i] = " "
  /\ \E i \in 1..Len(last.arg) : last.arg[i] = "."
  /\ \E i \in 1..Len(last.arg) : last.arg[i] = "b"
  /\ last.res = last.arg

\* the store of C9: only the notes of "A" and "B", A's text holds [[B]],
\* B's text holds no link
C9Store ==
  /\ DOMAIN files = {get_note_path(TitleA), get_note_path(TitleB)}
  /\ LET links == find_links(read_text(files, get_note_path(TitleA)))
     IN \E k \in 1..Len(links) : links[k] = TitleB
  /\ find_links(read_text(files, get_note_path(TitleB))) = <<>>

\* C9 (as claimed): in that store backlinksTo("B") is ["A"] and
\* backlinksTo("A") is empty.
C9_Backlinks ==
  (last.op = "get_backlinks" /\ C9Store) =>
    /\ (last.title = TitleB => last.res = <<TitleA>>)
    /\ (last.title = TitleA => last.res = <<>>)

\* the title list_all recovers for the note written as "A"
RecoveredTitleA == <<"a">>

\* C9 (amended): in that store backlinksTo("B") is ["a"], the title recovered
\* from the file name of note "A", and backlinksTo("A") is empty.
C9_BacklinksAmended ==
  (last.op = "get_backlinks" /\ C9Store) =>
    /\ (last.title = TitleB => last.res = <<RecoveredTitleA>>)
    /\ (last.title = TitleA => last.res = <<>>)

\* C9 witness: backlinksTo("B") has been computed in that store, B still
\* holding the text create wrote
C9_Witness ==
  /\ last.op = "get_backlinks"
  /\ last.title = TitleB
  /\ C9Store
  /\ \E t \in 0..MaxClock :
       files[get_note_path(TitleB)].content = frontmatter(TitleB, t)

\* a key without one trailing '.md'
StripTrailingMd(key) ==
  IF endswith(key, MD) THEN SubSeq(key, 1, Len(key) - Len(MD)) ELSE key

\* C10 (as claimed): a note is in backlinksTo(T) exactly when one of its
\* links, lowercased and with spaces as underscores, equals key(T) or key(T)
\* without one trailing '.md'.
C10_BacklinkMatch ==
  last.op = "get_backlinks" =>
    \A p \in DOMAIN files :
      LET links == find_links(read_text(files, p))
          key == normalized(last.title)
      IN (\E k \in 1..Len(last.res) : last.res[k] = get_title_from_path(p))
           <=> (\E k \in 1..Len(links) :
                  \/ normalized(links[k]) = key
                  \/ normalized(links[k]) = StripTrailingMd(key))

\* the listings list_all can return in a store
Listings(fs) == {list_all(fs, order) : order \in GlobOrders(fs)}

\* the position of the entry with this title in a listing or result, 0 if none
Pos(seq, title) ==
  IF \E k \in 1..Len(seq) : seq[k].title = title
  THEN CHOOSE k \in 1..Len(seq) : seq[k].title = title
  ELSE 0

\* C11: listAll() holds exactly one entry for each file of the store, with
\* the title recovered from the file's name, and nothing else.
C11_ListAll ==
  last.op = "list_all" =>
    /\ Len(last.res) = Cardinality(DOMAIN files)
    /\ \A p \in DOMAIN files :
         \E k \in 1..Len(last.res) :
           /\ last.res[k].path = p
           /\ last.res[k].title = get_title_from_path(p)

\* C11 witness: a store of two notes has been listed
C11_Witness ==
  /\ last.op = "list_all"
  /\ Cardinality(DOMAIN files) = 2
  /\ Len(last.res) = 2

DistinctTimes(fs) ==
  \A p, q \in DOMAIN fs : p # q => fs[p].mtime # fs[q].mtime

\* C12: when all modification times differ, listAll() is strictly ordered by
\* modification time, latest first; the note a create or update has just
\* written is the first entry; read, exists, search, backlinksTo and listAll
\* leave the files, hence the order, as they were.
C12_ListOrder ==
  [][ /\ (Calls("list_all") /\ DistinctTimes(files)) =>
           \A i, j \in 1..Len(last'.res) :
             i < j => last'.res[i].modified > last'.res[j].modified
      /\ ( /\ now' = now
           /\ last'.op \in {"create", "update"}
           /\ last'.raised = ""
           /\ DistinctTimes(files') ) =>
           \A L \in Listings(files') : L[1].path = get_note_path(last'.title)
      /\ ( /\ now' = now
           /\ last'.op \in {"read", "exists", "search", "get_backlinks", "list_all"} ) =>
           /\ files' = files
           /\ Listings(files') = Listings(files) ]_vars

\* C12 witness: an update has moved a note in front of a note written before
C12_Witness ==
  /\ last.op = "update"
  /\ Cardinality(DOMAIN files) = 2
  /\ DistinctTimes(files)
  /\ \A p \in DOMAIN files : files[p].mtime <= files[get_note_path(last.title)].mtime

\* C13 (as claimed): search(q) holds exactly one result for each note whose
\* text contains q case-insensitively and none for any other note, and the
\* matchCount of a result is the number of non-overlapping occurrences of
\* lowercased q in the note's lowercased text, at least 1.
C13_Search ==
  last.op = "search" =>
    \A p \in DOMAIN files :
      LET text == lower(read_text(files, p))
          q == lower(last.title)
          hits == {k \in 1..Len(last.res) : last.res[k].title = get_title_from_path(p)}
      IN IF contains(text, q)
         THEN /\ Cardinality(hits) = 1
              /\ \A k \in hits : /\ last.res[k].matches = count(text, q)
                                 /\ last.res[k].matches >= 1
         ELSE hits = {}

C17_BacklinksOrder ==
  last.op = "get_backlinks" =>
    /\ \E L \in Listings(files) :
         /\ \A k \in 1..Len(last.res) : Pos(L, last.res[k]) > 0
         /\ \A i, j \in 1..Len(last.res) :
              i < j => Pos(L, last.res[i]) < Pos(L, last.res[j])
    /\ LET p == get_note_path(last.title)
       IN ( /\ p \in DOMAIN files
            /\ LET links == find_links(read_text(files, p))
               IN \E k \in 1..Len(links) :
                    normalized(links[k]) = normalized(last.title) )
          => \E k \in 1..Len(last.res) : last.res[k] = get_title_from_path(p)

\* C15: the snippet is the text from 50 characters before the first
\* case-insensitive match to 50 characters behind its end, clipped to the
\* text, with '...' in front exactly when it does not start at the text's
\* start and '...' behind exactly when it does not end at the text's end,
\* then stripped of whitespace at both ends; "The quick brown fox" with
\* "quick" gives the whole text and no ellipsis.
C15_Snippet ==
  last.op = "get_snippet" =>
    LET text == last.title
        q == last.arg
        at == {i \in 1..Len(text) :
                 /\ i + Len(q) - 1 <= Len(text)
                 /\ \A k \in 1..Len(q) : LowerChar(text[i + k - 1]) = LowerChar(q[k])}
    IN at # {} =>
         LET first == CHOOSE i \in at : \A j \in at : i <= j
             from == IF first - context > 1 THEN first - context ELSE 1
             behind == first + Len(q) - 1 + context
             to == IF behind < Len(text) THEN behind ELSE Len(text)
             window == [k \in 1..(to - from + 1) |-> text[from + k - 1]]
             whole == (IF from > 1 THEN <<".", ".", ".">> ELSE <<>>)
                      \o window
                      \o (IF to < Len(text) THEN <<".", ".", ".">> ELSE <<>>)
         IN /\ last.res = strip(whole)
            /\ (text = ContentFox /\ q = QueryQuick) => last.res = ContentFox

\* C15 witness: a snippet cut at both ends, with whitespace kept behind the
\* leading ellipsis
C15_Witness ==
  /\ last.op = "get_snippet"
  /\ Len(last.res) > 2 * context
  /\ SubSeq(last.res, 1, 4) = <<".", ".", ".", " ">>
  /\ SubSeq(last.res, Len(last.res) - 2, Len(last.res)) = <<".", ".", ".">>

\* an occurrence of the link pattern in s: '[[' at i, no ']' from i + 2 to
\* e - 1, at least one character there, ']]' at e
LinkAt(s, i, e) ==
  /\ i >= 1
  /\ e > i + 2
  /\ e + 1 <= Len(s)
  /\ s[i] = "[" /\ s[i + 1] = "["
  /\ s[e] = "]" /\ s[e + 1] = "]"
  /\ \A k \in (i + 2)..(e - 1) : s[k] # "]"

\* where occurrences end; occurrences that overlap end at the same place and
\* the leftmost of them is the one that is reported
LinkEnds(s) == {e \in 1..Len(s) : \E i \in 1..Len(s) : LinkAt(s, i, e)}

LinkStart(s, e) ==
  CHOOSE i \in 1..Len(s) : LinkAt(s, i, e) /\ \A j \in 1..(i - 1) : ~LinkAt(s, j, e)

\* C16: extractLinks(text) is, in order of appearance and with duplicates,
\* the inner text of every non-overlapping occurrence of '[[', one or more
\* characters other than ']', ']]', as written; every link is non-empty and
\* holds no ']'; the example text gives ["Project Plan", "project plan"].
C16_FindLinks ==
  last.op = "find_links" =>
    LET text == last.title
        ends == LinkEnds(text)
    IN /\ Len(last.res) = Cardinality(ends)
       /\ \A e \in ends :
            last.res[Cardinality({d \in ends : d <= e})]
              = SubSeq(text, LinkStart(text, e) + 2, e - 1)
       /\ \A k \in 1..Len(last.res) :
            /\ last.res[k] # <<>>
            /\ \A n \in 1..Len(last.res[k]) : last.res[k][n] # "]"
       /\ text = TextProjectPlan =>
            last.res = << <<"P", "r", "o", "j", "e", "c", "t", " ", "P", "l", "a", "n">>,
                          <<"p", "r", "o", "j", "e", "c", "t", " ", "p", "l", "a", "n">> >>

\* C16 witness: two links, the same text twice, have been extracted
C16_Witness ==
  /\ last.op = "find_links"
  /\ Len(last.res) = 2
  /\ last.res[1] = last.res[2]

\* C18: the notes directory exists once the store is constructed, and a
\* create or update called while the directory is absent recreates it and
\* succeeds, with the note existing afterwards.
C18_WriteRecreatesDir ==
  [][/\ last'.op = "init" => dir_exists'
     /\ ((Calls("create") \/ Calls("update")) /\ ~dir_exists)
          => /\ dir_exists'
             /\ last'.raised = ""
             /\ path_exists(files', get_note_path(last'.title))]_vars

\* C19: in the interactive shell, entering the title of an existing note
\* alone as the input line displays that note and creates, modifies and
\* deletes no note.
C19_TitleAloneShows ==
  [][(shell.looping /\ last'.op = "line" /\ last'.title # <<>>
      /\ exists(files, last'.title))
       => /\ shell'.out.kind = "show"
          /\ shell'.out.title = last'.title
          /\ shell'.out.body.content = read(files, last'.title)[1]
          /\ files' = files]_vars

C21_DeleteConfirm ==
  [][(/\ shell.looping
      /\ last'.op = "line"
      /\ lower(split_cmd(strip(last'.title))) = Cmd.delete
      /\ split_args(strip(last'.title)) # <<>>)
       => LET title == split_args(strip(last'.title))
              answer == last'.arg
              yes == answer.exc = "" /\ answer.text \in {<<"y">>, <<"Y">>}
              others == [p \in (DOMAIN files) \ {get_note_path(title)} |-> files[p]]
          IN IF get_note_path(title) \in DOMAIN files
             THEN IF yes
                  THEN files' = others /\ shell'.out.kind = "deleted"
                  ELSE files' = files /\ shell'.out.kind # "deleted"
             ELSE /\ files' = files
                  /\ shell'.out.kind = "not found"
                  /\ shell'.looping]_vars

\* C21 witness: an existing note was deleted on the answer 'Y'
C21_Witness ==
  /\ last.op = "line"
  /\ lower(split_cmd(strip(last.title))) = Cmd.delete
  /\ last.arg.text = <<"Y">>
  /\ shell.out.kind = "deleted"
  /\ ~exists(files, shell.out.title)

\* C22: once 'live-search' has been entered the shell is in live-search mode:
\* the next non-empty input line, unless it is 'show <title>', 'exit', 'quit'
\* or 'clear', is run as a search query and its results are shown.
C22_LiveSearchMode ==
  [][(/\ shell.looping
      /\ last.op = "line"
      /\ lower(split_cmd(strip(last.title))) = Cmd.live_search
      /\ last'.op = "line"
      /\ strip(last'.title) # <<>>
      /\ lower(split_cmd(strip(last'.title))) \notin {Cmd.show, Cmd.exit, Cmd.quit, Cmd.clear})
       => /\ shell'.out.kind = "search"
          /\ shell'.out.title = last'.title]_vars

\* C24: for every note written through create or update, the title recovered
\* from its file path maps back to the same path, so that reading the note by
\* its recovered title, as get_backlinks and search do, reads its own file.
C24_RecoveredTitleReadsOwnFile ==
  \A p \in DOMAIN files :
    /\ get_note_path(get_title_from_path(p)) = p
    /\ read(files, get_title_from_path(p)) = Some(read_text(files, p))

\* C25 (as claimed): get_backlinks depends only on the note the target
\* denotes: a title of the same path as the one asked for gets the same
\* backlinks in the same store state.
C25_BacklinksSamePath ==
  last.op = "get_backlinks" =>
    \A title \in KeyTargets :
      SamePath(title, last.title)
        => last.res \in {get_backlinks(files, order, title) : order \in GlobOrders(files)}

\* the comparison key of 4.4: lowercase, spaces to underscores
Key(title) ==
  [i \in 1..Len(title) |-> IF title[i] = " " THEN "_" ELSE LowerChar(title[i])]

\* C25 (amended): get_backlinks depends on the target only through its
\* comparison key: a title of the same key as the one asked for gets the same
\* backlinks in the same store state.
C25_BacklinksSameKey ==
  last.op = "get_backlinks" =>
    \A title \in KeyTargets :
      Key(title) = Key(last.title)
        => last.res \in {get_backlinks(files, order, title) : order \in GlobOrders(files)}

\* C25 witness: backlinks were found for a target written otherwise than the
\* link that names it
C25_Witness ==
  /\ last.op = "get_backlinks"
  /\ last.title = TitleAUnderB
  /\ last.res # <<>>
  /\ \E p \in DOMAIN files : files[p].content = ContentLinkASpaceB

\* C26: create(T), update(T, C) and delete(T) change at most the note at
\* pathFor(T): for every title U of another path, exists(U) and read(U) give
\* the same before and after the call, whether it succeeds or raises.
C26_Frame ==
  [][(Calls("create") \/ Calls("update") \/ Calls("delete"))
       => \A title \in Titles :
            ~SamePath(title, last'.title)
              => /\ exists(files', title) = exists(files, title)
                 /\ read(files', title) = read(files, title)]_vars

\* C26 witness: a note was written or removed, or a create failed, while a
\* note of another path was in the store
C26_Witness ==
  /\ last.op \in {"create", "update", "delete"}
  /\ \E title \in Titles : ~SamePath(title, last.title) /\ exists(files, title)

\* what a scan returns when nothing else runs, for each order of the directory
ScanResults(op, arg, fs) ==
  {CASE op = "list_all" -> list_all(fs, order)
     [] op = "get_backlinks" -> get_backlinks(fs, order, arg)
     [] op = "search" -> search(fs, order, arg) : order \in GlobOrders(fs)}

\* C23: with exclusive access a list_all, get_backlinks or search raises
\* nothing and returns what the store state of the call determines; the scans
\* take no lock and no snapshot, so with writes of another process in between
\* the result can be that of no store state that existed during the call
\* (the witness).
C23_ExclusiveScan ==
  (scan.pc = "done" /\ scan.writes = 0)
    => /\ scan.raised = ""
       /\ scan.seen = {files}
       /\ scan.res \in ScanResults(scan.op, scan.arg, files)

\* C23 witness: a scan returned, without raising, a result that no store
\* state of the time of the call determines
C23_Witness ==
  /\ scan.pc = "done"
  /\ scan.raised = ""
  /\ scan.writes > 0
  /\ \A fs \in scan.seen : scan.res \notin ScanResults(scan.op, scan.arg, fs)

====
